---- MODULE Spec2Model ----
(***************************************************************************)
(* SafeCity dashboard (src/src/app.py): the start-up pipeline (load the    *)
(* crime CSV and the borough GeoJSON, melt the wide table to long form,    *)
(* build the borough options), the two Dash callbacks update_heatmap and   *)
(* update_graphs_and_dropdown, and the browser-side selection state that   *)
(* drives them.                                                            *)
(*                                                                         *)
(* Conventions.  A DataFrame is a record holding the sequence of its rows, *)
(* in pandas' row order.  Month labels are the integers YYYYMM, so that    *)
(* the order of the labels is the order of the integers.  Python's None is *)
(* NoData for objects and the string None for dropdown values.  A function *)
(* either returns (Return) or lets an exception escape (Raise).  A         *)
(* callback's return tuple is a record holding only the outputs it         *)
(* updates: an output returned as dash.no_update is absent from it.        *)
(***************************************************************************)
EXTENDS Integers, Sequences, FiniteSets, TLC

VARIABLES
    pc,                     \* position in the module-level code, then serving/open/tested/crashed
    error,                  \* the exception that escaped, or None
    crime_file,             \* data/crime_cleaned.csv on disk
    geojson_file,           \* Data/london-boroughs_1179.geojson on disk
    crime_df,               \* module global (wide after line 70, long after line 121)
    geojson_data,           \* module global
    borough_options,        \* module global
    n_clicks,               \* navigate-button.n_clicks
    borough_value,          \* borough-selection.value
    major_value,            \* major-crime-selection.value
    chosen_with,            \* history: borough-selection.value when major_value was picked
    heatmap_fig,            \* crime-heatmap.figure
    graph_container_style,  \* graph-container.style
    trend_fig,              \* crime-trend-graph.figure
    pie_fig,                \* major-crime-pie-chart.figure
    pie_style,              \* major-crime-pie-chart.style
    breakdown_fig,          \* crime-breakdown-graph.figure
    major_options,          \* major-crime-selection.options
    major_style,            \* major-crime-selection.style
    last_call               \* the latest callback invocation: its arguments and result

files   == <<crime_file, geojson_file>>
globals == <<crime_df, geojson_data, borough_options>>
inputs  == <<n_clicks, borough_value, major_value, chosen_with>>
graphs  == <<graph_container_style, trend_fig, pie_fig, pie_style,
             breakdown_fig, major_options, major_style>>
vars    == <<pc, error, files, globals, inputs, heatmap_fig, graphs, last_call>>

----------------------------------------------------------------------------
(* Bounds and sample domains *)

MaxRows == 2
MaxClicks == 2

Boroughs        == {"Camden", "Barnet"}
MajorCategories == {"Theft", "Burglary"}
Subcategories   == {"Shoplifting", "Other"}
MonthLabels     == {202301, 202302}
CrimeCounts     == {0, 1}
ClickSamples    == {0, 1}

None   == "None"
NoData == [type |-> "NoneType"]

Return(v) == [raised |-> FALSE, value |-> v]
Raise(e)  == [raised |-> TRUE, exc |-> e]

----------------------------------------------------------------------------
(* Sequence helpers *)

Range(s) == {s[i] : i \in DOMAIN s}

RECURSIVE SumSeq(_)
SumSeq(s) == IF s = <<>> THEN 0 ELSE Head(s) + SumSeq(Tail(s))

RECURSIVE SortedSeq(_)
SortedSeq(S) ==
    IF S = {} THEN <<>>
    ELSE LET m == CHOOSE x \in S : \A y \in S : x <= y
         IN  <<m>> \o SortedSeq(S \ {m})

RECURSIVE Unique(_)
Unique(s) ==
    IF s = <<>> THEN <<>>
    ELSE LET init == Unique(SubSeq(s, 1, Len(s) - 1))
             x    == s[Len(s)]
         IN  IF x \in Range(init) THEN init ELSE Append(init, x)

Column(rows, name) == [i \in DOMAIN rows |-> rows[i][name]]

ColumnOrders(S) == {p \in [1..Cardinality(S) -> S] : Range(p) = S}

----------------------------------------------------------------------------
(* Files *)

AbsentFile == [state |-> "absent"]
EmptyFile  == [state |-> "empty"]

CsvRows ==
    [BoroughName : Boroughs, MajorText : MajorCategories,
     MinorText : Subcategories, counts : [1..Cardinality(MonthLabels) -> CrimeCounts]]

CsvFiles ==
    {[state |-> "ok", columns |-> cols, rows |-> rows] :
        cols \in ColumnOrders(MonthLabels),
        rows \in UNION {[1..k -> CsvRows] : k \in 0..MaxRows}}

CsvRow(b, major, minor, counts) ==
    [BoroughName |-> b, MajorText |-> major, MinorText |-> minor, counts |-> counts]

SampleCsvFiles ==
    {[state |-> "ok", columns |-> <<202301, 202302>>,
      rows |-> <<CsvRow("Camden", "Theft", "Shoplifting", <<1, 0>>),
                 CsvRow("Camden", "Burglary", "Other", <<1, 1>>),
                 CsvRow("Barnet", "Theft", "Other", <<0, 1>>)>>],
     [state |-> "ok", columns |-> <<202302, 202301>>,
      rows |-> <<CsvRow("Barnet", "Burglary", "Shoplifting", <<1, 1>>),
                 CsvRow("Camden", "Theft", "Other", <<0, 1>>),
                 CsvRow("Camden", "Theft", "Shoplifting", <<1, 0>>)>>]}

GeojsonFile == [state |-> "ok", names |-> Boroughs]

----------------------------------------------------------------------------
(* Loaders *)

read_csv(file) ==
    IF file.state = "absent" THEN Raise("FileNotFoundError")
    ELSE IF file.state = "empty" THEN Raise("EmptyDataError")
    ELSE Return([type |-> "DataFrame", form |-> "csv",
                 columns |-> file.columns, rows |-> file.rows])

rename(df) ==
    [type |-> "DataFrame", form |-> "wide", columns |-> df.columns,
     rows |-> [i \in DOMAIN df.rows |->
                 [BoroughName        |-> df.rows[i].BoroughName,
                  MajorCrimeCategory |-> df.rows[i].MajorText,
                  CrimeSubcategory   |-> df.rows[i].MinorText,
                  counts             |-> df.rows[i].counts]]]

CrimeCaught == {"FileNotFoundError", "EmptyDataError"}

load_crime_data ==
    LET r == read_csv(crime_file)
    IN  IF r.raised
        THEN IF r.exc \in CrimeCaught THEN Return(NoData) ELSE r
        ELSE Return(rename(r.value))

json_load(file) ==
    IF file.state = "absent" THEN Raise("FileNotFoundError")
    ELSE IF file.state = "empty" THEN Raise("JSONDecodeError")
    ELSE Return([type |-> "dict", names |-> file.names])

GeojsonCaught == {"FileNotFoundError"}

load_geojson ==
    LET r == json_load(geojson_file)
    IN  IF r.raised
        THEN IF r.exc \in GeojsonCaught THEN Return(NoData) ELSE r
        ELSE r

----------------------------------------------------------------------------
(* Reshaper *)

LongRow(row, month, count) ==
    [BoroughName        |-> row.BoroughName,
     MajorCrimeCategory |-> row.MajorCrimeCategory,
     CrimeSubcategory   |-> row.CrimeSubcategory,
     Month              |-> month,
     CrimeCount         |-> count]

\* Faulty variant: the first value column is taken for an identifier column.
MeltColumnsSkipFirst(df) == 2..Len(df.columns)

MeltColumns(df) == 1..Len(df.columns)

melt(df) ==
    LET R == Len(df.rows)
        cols == SortedSeq(MeltColumns(df))
    IN  [type |-> "DataFrame", form |-> "long",
         rows |-> [k \in 1..(R * Len(cols)) |->
                     LET c == cols[((k - 1) \div R) + 1]
                         i == ((k - 1) % R) + 1
                     IN  LongRow(df.rows[i], df.columns[c], df.rows[i].counts[c])]]

melt_crime_data(df) == IF df # NoData THEN melt(df) ELSE df

get_borough_options(df) ==
    IF df # NoData
    THEN LET u == Unique(Column(df.rows, "BoroughName"))
         IN  [i \in DOMAIN u |-> [label |-> u[i], value |-> u[i]]]
    ELSE <<[label |-> "No data available", value |-> ""]>>

----------------------------------------------------------------------------
(* Figures.  A figure is its title, its traces (data) and its annotations. *)
(* A line trace is its name and its points in plotting order; a pie trace  *)
(* and a choropleth trace hold one entry per group (groupby's lexical      *)
(* order of the group keys is not modelled).  px.line leaves no trace when *)
(* it is given no rows.                                                    *)

NoFigure == [kind |-> "unset"]

empty_figure(message) ==
    [kind |-> "figure", title |-> <<message>>, data |-> <<>>,
     annotations |-> <<[text |-> message]>>]

Where(rows, name, v) == SelectSeq(rows, LAMBDA r : r[name] = v)

\* Faulty variant: .count() for .sum().
TotalCount(rows) == Len(rows)

Total(rows) == SumSeq(Column(rows, "CrimeCount"))

px_line_empty == [kind |-> "figure", title |-> <<>>, data |-> <<>>, annotations |-> <<>>]

TrendFigure(filtered_df, selected_borough) ==
    LET x == SortedSeq({r.Month : r \in Range(filtered_df)})
        y == [i \in DOMAIN x |-> Total(Where(filtered_df, "Month", x[i]))]
    IN  [kind |-> "figure",
         title |-> <<"Overall Crime Trend in ", selected_borough, " Over Time">>,
         data |-> IF x = <<>> THEN <<>> ELSE <<[type |-> "line", name |-> "", x |-> x, y |-> y]>>,
         annotations |-> <<>>]

PieFigure(filtered_df, selected_borough) ==
    [kind |-> "figure",
     title |-> <<"Count of Each Major Crime Type in ", selected_borough>>,
     data |-> <<[type |-> "pie",
                 slices |-> {[label |-> c,
                              value |-> Total(Where(filtered_df, "MajorCrimeCategory", c))] :
                             c \in {r.MajorCrimeCategory : r \in Range(filtered_df)}}]>>,
     annotations |-> <<>>]

BreakdownRows(filtered_df, selected_major_crime) ==
    Where(filtered_df, "MajorCrimeCategory", selected_major_crime)

BreakdownFigure(filtered_df, selected_major_crime, selected_borough) ==
    LET breakdown_df == BreakdownRows(filtered_df, selected_major_crime)
        names == Unique(Column(breakdown_df, "CrimeSubcategory"))
    IN  [kind |-> "figure",
         title |-> <<"Crime Trend Over Time for ", selected_major_crime, " in ",
                     selected_borough>>,
         data |-> [i \in DOMAIN names |->
                     LET pts == Where(breakdown_df, "CrimeSubcategory", names[i])
                     IN  [type |-> "line", name |-> names[i],
                          x |-> Column(pts, "Month"),
                          y |-> Column(pts, "CrimeCount")]],
         annotations |-> <<>>]

----------------------------------------------------------------------------
(* Callbacks *)

Truthy(v) == v \notin {None, ""}

DisplayNone  == [display |-> "none"]
DisplayBlock == [display |-> "block"]

\* Faulty variant: `and` for `or`.
HeatmapNoDataBoth == crime_df = NoData /\ geojson_data = NoData

HeatmapNoData == crime_df = NoData \/ geojson_data = NoData

update_heatmap(n) ==
    IF HeatmapNoData THEN Return(empty_figure("Error: No data available"))
    ELSE IF crime_df = NoData THEN Raise("AttributeError")
    ELSE Return(
        [kind |-> "figure", title |-> <<"Crime Heatmap of London">>,
         data |-> <<[type |-> "choroplethmap",
                     z |-> {[BoroughName |-> b,
                             CrimeCount |-> Total(Where(crime_df.rows, "BoroughName", b))] :
                            b \in {r.BoroughName : r \in Range(crime_df.rows)}}]>>,
         annotations |-> <<>>])

\* Faulty variant: the borough is not tested.
HideGraphsNoBoroughTest(n, selected_borough) ==
    n = 0 \/ crime_df = NoData

\* Faulty variant: the first press is not counted.
HideGraphsFirstPress(n, selected_borough) ==
    n <= 1 \/ crime_df = NoData \/ ~Truthy(selected_borough)

HideGraphs(n, selected_borough) ==
    n = 0 \/ crime_df = NoData \/ ~Truthy(selected_borough)

HiddenOutputs ==
    [graph_container_style |-> DisplayNone,
     pie_style             |-> DisplayNone,
     major_options         |-> <<>>,
     major_style           |-> DisplayNone]

\* Faulty variant: the table is not filtered.
FilterBoroughAll(df, selected_borough) == df.rows

FilterBorough(df, selected_borough) ==
    Where(df.rows, "BoroughName", selected_borough)

MajorCrimeOptions(filtered_df) ==
    LET u == Unique(Column(filtered_df, "MajorCrimeCategory"))
    IN  [i \in DOMAIN u |-> [label |-> u[i], value |-> u[i]]]

Figures(filtered_df, selected_major_crime, selected_borough) ==
    [graph_container_style |-> DisplayBlock,
     trend_fig             |-> TrendFigure(filtered_df, selected_borough),
     pie_fig               |-> PieFigure(filtered_df, selected_borough),
     pie_style             |-> DisplayBlock,
     breakdown_fig         |-> IF Truthy(selected_major_crime)
                               THEN BreakdownFigure(filtered_df, selected_major_crime,
                                                    selected_borough)
                               ELSE px_line_empty,
     major_options         |-> MajorCrimeOptions(filtered_df),
     major_style           |-> DisplayBlock]

\* Faulty variant: the dropdown's value is returned as dash.no_update.
ShownOutputsKeepValue(filtered_df, selected_major_crime, selected_borough) ==
    Figures(filtered_df, selected_major_crime, selected_borough)

ShownOutputs(filtered_df, selected_major_crime, selected_borough) ==
    Figures(filtered_df, selected_major_crime, selected_borough) @@ [major_value |-> None]

update_graphs_and_dropdown(n, selected_major_crime, selected_borough) ==
    IF HideGraphs(n, selected_borough) THEN Return(HiddenOutputs)
    ELSE IF crime_df = NoData THEN Raise("TypeError")
    ELSE Return(ShownOutputs(FilterBorough(crime_df, selected_borough),
                             selected_major_crime, selected_borough))

----------------------------------------------------------------------------
(* Browser side.  Dash invokes a callback when one of its Inputs changes   *)
(* (and once when the page loads), passes the current value of its States, *)
(* writes the returned outputs to the page, and does not invoke a callback *)
(* again for a value the callback itself wrote.                            *)

Upd(ret, id, current) == IF id \in DOMAIN ret THEN ret[id] ELSE current

OptionValues(options) == {options[i].value : i \in DOMAIN options}

\* The value of major-crime-selection after the outputs `ret` are written, when
\* the callback was invoked with the value `cat`.  Whether the dropdown keeps a
\* value that is no longer among its options depends on the dash release.
ValuesAfter(ret, cat) ==
    IF "major_value" \in DOMAIN ret THEN {ret.major_value}
    ELSE IF cat # None /\ cat \notin OptionValues(Upd(ret, "major_options", major_options))
         THEN {cat, None}
         ELSE {cat}

GraphsCall(trigger, n, cat, b) ==
    [fn |-> "update_graphs_and_dropdown", trigger |-> trigger, n_clicks |-> n,
     selected_major_crime |-> cat, selected_borough |-> b,
     result |-> update_graphs_and_dropdown(n, cat, b)]

HeatmapCall(trigger, n) ==
    [fn |-> "update_heatmap", trigger |-> trigger, n_clicks |-> n,
     result |-> update_heatmap(n)]

\* A callback that raises leaves the page as it was.
WriteGraphs(r, cat, chosen, style0, trend0, pie0, piestyle0, breakdown0, options0, mstyle0) ==
    LET ret == IF r.raised THEN [raised |-> TRUE] ELSE r.value
    IN  /\ graph_container_style' = Upd(ret, "graph_container_style", style0)
        /\ trend_fig'             = Upd(ret, "trend_fig", trend0)
        /\ pie_fig'               = Upd(ret, "pie_fig", pie0)
        /\ pie_style'             = Upd(ret, "pie_style", piestyle0)
        /\ breakdown_fig'         = Upd(ret, "breakdown_fig", breakdown0)
        /\ major_options'         = Upd(ret, "major_options", options0)
        /\ major_style'           = Upd(ret, "major_style", mstyle0)
        /\ \E v \in ValuesAfter(ret, cat) :
              /\ major_value' = v
              /\ chosen_with' = IF v = None THEN None ELSE chosen

WriteHeatmap(r, fig0) == heatmap_fig' = IF r.raised THEN fig0 ELSE r.value

Escaped(h, g) == IF h.raised THEN h.exc ELSE IF g.raised THEN g.exc ELSE error

----------------------------------------------------------------------------
(* Start-up: the module-level statements of app.py, in order *)

InitPage ==
    /\ pc = "load_crime_data"
    /\ error = None
    /\ crime_df = NoData
    /\ geojson_data = NoData
    /\ borough_options = <<>>
    /\ n_clicks = 0
    /\ borough_value = None
    /\ major_value = None
    /\ chosen_with = None
    /\ heatmap_fig = NoFigure
    /\ graph_container_style = DisplayNone
    /\ trend_fig = NoFigure
    /\ pie_fig = NoFigure
    /\ pie_style = DisplayNone
    /\ breakdown_fig = NoFigure
    /\ major_options = <<>>
    /\ major_style = DisplayNone
    /\ last_call = [fn |-> "none"]

Init ==
    /\ crime_file \in {AbsentFile, EmptyFile} \cup SampleCsvFiles
    /\ geojson_file \in {AbsentFile, EmptyFile, GeojsonFile}
    /\ InitPage

InitData ==
    /\ crime_file \in CsvFiles
    /\ geojson_file = GeojsonFile
    /\ InitPage

LoadCrimeData ==
    /\ pc = "load_crime_data"
    /\ LET r == load_crime_data
       IN  IF r.raised
           THEN pc' = "crashed" /\ error' = r.exc /\ crime_df' = crime_df
           ELSE pc' = "load_geojson" /\ error' = error /\ crime_df' = r.value
    /\ UNCHANGED <<files, geojson_data, borough_options, inputs, heatmap_fig, graphs,
                   last_call>>

LoadGeojson ==
    /\ pc = "load_geojson"
    /\ LET r == load_geojson
       IN  IF r.raised
           THEN pc' = "crashed" /\ error' = r.exc /\ geojson_data' = geojson_data
           ELSE pc' = "melt_crime_data" /\ error' = error /\ geojson_data' = r.value
    /\ UNCHANGED <<files, crime_df, borough_options, inputs, heatmap_fig, graphs,
                   last_call>>

MeltCrimeData ==
    /\ pc = "melt_crime_data"
    /\ crime_df' = melt_crime_data(crime_df)
    /\ pc' = "layout"
    /\ UNCHANGED <<error, files, geojson_data, borough_options, inputs, heatmap_fig,
                   graphs, last_call>>

BuildLayout ==
    /\ pc = "layout"
    /\ borough_options' = get_borough_options(crime_df)
    /\ pc' = "serving"
    /\ UNCHANGED <<error, files, crime_df, geojson_data, inputs, heatmap_fig, graphs,
                   last_call>>

----------------------------------------------------------------------------
(* User actions *)

\* The page is (re)loaded: the layout's initial properties, the borough kept by
\* its session persistence, and the initial invocation of both callbacks.
PageLoad ==
    /\ pc \in {"serving", "open"}
    /\ pc' = "open"
    /\ n_clicks' = 0
    /\ UNCHANGED borough_value
    /\ LET h == HeatmapCall("load", 0)
           g == GraphsCall("load", 0, None, borough_value)
       IN  /\ WriteHeatmap(h.result, NoFigure)
           /\ WriteGraphs(g.result, None, None, DisplayNone, NoFigure, NoFigure,
                          DisplayNone, NoFigure, <<>>, DisplayNone)
           /\ last_call' = g
           /\ error' = Escaped(h.result, g.result)
    /\ UNCHANGED <<files, globals>>

\* borough-selection is a State of update_graphs_and_dropdown: no callback runs.
SelectBorough(b) ==
    /\ pc = "open"
    /\ b \in OptionValues(borough_options) \cup {None}
    /\ b # borough_value
    /\ borough_value' = b
    /\ UNCHANGED <<pc, error, files, globals, n_clicks, major_value, chosen_with,
                   heatmap_fig, graphs, last_call>>

PressButton ==
    /\ pc = "open"
    /\ n_clicks < MaxClicks
    /\ n_clicks' = n_clicks + 1
    /\ UNCHANGED borough_value
    /\ LET h == HeatmapCall("n_clicks", n_clicks + 1)
           g == GraphsCall("n_clicks", n_clicks + 1, major_value, borough_value)
       IN  /\ WriteHeatmap(h.result, heatmap_fig)
           /\ WriteGraphs(g.result, major_value, chosen_with, graph_container_style,
                          trend_fig, pie_fig, pie_style, breakdown_fig, major_options,
                          major_style)
           /\ last_call' = g
           /\ error' = Escaped(h.result, g.result)
    /\ UNCHANGED <<pc, files, globals>>

\* The user picks a category in the displayed dropdown, or clears it.
SelectCategory(c) ==
    /\ pc = "open"
    /\ graph_container_style = DisplayBlock
    /\ major_style = DisplayBlock
    /\ c \in OptionValues(major_options) \cup {None}
    /\ c # major_value
    /\ LET g == GraphsCall("value", n_clicks, c, borough_value)
       IN  /\ WriteGraphs(g.result, c, borough_value, graph_container_style, trend_fig,
                          pie_fig, pie_style, breakdown_fig, major_options, major_style)
           /\ last_call' = g
           /\ error' = Escaped(g.result, g.result)
    /\ UNCHANGED <<pc, files, globals, n_clicks, borough_value, heatmap_fig>>

\* A test process imports the module and calls a callback function directly with
\* arguments of its choice: the page is not written.
CallGraphsDirect(n, cat, b) ==
    /\ pc = "serving"
    /\ pc' = "tested"
    /\ last_call' = GraphsCall("direct", n, cat, b)
    /\ UNCHANGED <<error, files, globals, inputs, heatmap_fig, graphs>>

CallHeatmapDirect(n) ==
    /\ pc = "serving"
    /\ pc' = "tested"
    /\ last_call' = HeatmapCall("direct", n)
    /\ UNCHANGED <<error, files, globals, inputs, heatmap_fig, graphs>>

----------------------------------------------------------------------------

Startup == LoadCrimeData \/ LoadGeojson \/ MeltCrimeData \/ BuildLayout

Next ==
    \/ Startup
    \/ PageLoad
    \/ \E b \in Boroughs \cup {None, ""} : SelectBorough(b)
    \/ PressButton
    \/ \E c \in MajorCategories \cup {None} : SelectCategory(c)

Spec == Init /\ [][Next]_vars

NextData ==
    \/ Startup
    \/ \E n \in ClickSamples, cat \in MajorCategories \cup {None},
          b \in Boroughs \cup {None} : CallGraphsDirect(n, cat, b)
    \/ \E n \in ClickSamples : CallHeatmapDirect(n)

SpecData == InitData /\ [][NextData]_vars

----------------------------------------------------------------------------
(* Vocabulary of the properties *)

Imported == pc \in {"serving", "open", "tested"}

Rendered(call) ==
    /\ call.fn = "update_graphs_and_dropdown"
    /\ ~call.result.raised
    /\ "trend_fig" \in DOMAIN call.result.value

ShownBorough(fig) == IF fig.kind = "figure" /\ Len(fig.title) >= 2 THEN fig.title[2] ELSE None

BoroughRows(b) ==
    IF crime_df = NoData THEN {} ELSE {r \in Range(crime_df.rows) : r.BoroughName = b}

BoroughCategories(b) == {r.MajorCrimeCategory : r \in BoroughRows(b)}

ChartsDisplayed ==
    /\ graph_container_style = DisplayBlock
    /\ pie_style = DisplayBlock
    /\ major_style = DisplayBlock

\* The selection states of the dashboard, read off the page.
AtStart == graph_container_style = DisplayNone

BoroughSelected(b) ==
    /\ ChartsDisplayed
    /\ ShownBorough(trend_fig) = b /\ ShownBorough(pie_fig) = b
    /\ OptionValues(major_options) = BoroughCategories(b)
    /\ breakdown_fig.data = <<>>

CategorySelected(b, c) ==
    /\ ChartsDisplayed
    /\ ShownBorough(trend_fig) = b /\ ShownBorough(pie_fig) = b
    /\ OptionValues(major_options) = BoroughCategories(b)
    /\ breakdown_fig.data # <<>>
    /\ breakdown_fig.title = <<"Crime Trend Over Time for ", c, " in ", b>>
    /\ {t.name : t \in Range(breakdown_fig.data)} =
          {r.CrimeSubcategory : r \in {q \in BoroughRows(b) : q.MajorCrimeCategory = c}}

----------------------------------------------------------------------------
\* C1 (as stated): once the borough selection has changed from A to B, no charts of
\* A remain displayed while B is the selected borough: the displayed trend, pie and
\* category options are those of the selected borough and the category is cleared.
C1_BoroughChangeResets ==
    (pc = "open" /\ ChartsDisplayed /\ Truthy(borough_value)) =>
        /\ ShownBorough(trend_fig) = borough_value
        /\ ShownBorough(pie_fig) = borough_value
        /\ OptionValues(major_options) = BoroughCategories(borough_value)

\* C1 (amended): changing the borough selection invokes nothing and leaves the page
\* as it is; every later invocation of update_graphs_and_dropdown that displays
\* charts displays the trend, the pie and the category options of the borough
\* selected at that moment, writes None to the category dropdown, shows a breakdown
\* only for the category it was invoked with, and is never invoked with a category
\* that was picked while another borough was selected.
C1_ResetOnNextInvocation ==
    [][ /\ (borough_value' # borough_value) =>
              /\ graphs' = graphs /\ heatmap_fig' = heatmap_fig
              /\ major_value' = major_value /\ last_call' = last_call
        /\ (last_call' # last_call /\ graph_container_style' = DisplayBlock) =>
              /\ Rendered(last_call')
              /\ last_call'.selected_borough = borough_value'
              /\ ChartsDisplayed'
              /\ ShownBorough(trend_fig') = borough_value'
              /\ ShownBorough(pie_fig') = borough_value'
              /\ OptionValues(major_options') = BoroughCategories(borough_value')
              /\ major_value' = None
              /\ IF Truthy(last_call'.selected_major_crime)
                 THEN /\ breakdown_fig'.title[2] = last_call'.selected_major_crime
                      /\ breakdown_fig'.title[4] = borough_value'
                      /\ last_call'.trigger = "n_clicks" =>
                            chosen_with \notin Boroughs \ {borough_value'}
                 ELSE breakdown_fig'.data = <<>>
      ]_vars

\* C1 witness: with Camden's charts displayed the borough was changed to Barnet and a
\* category only Camden offers was picked; the invocation displayed Barnet's charts.
C1_Witness ==
    /\ pc = "open" /\ ChartsDisplayed
    /\ last_call.fn = "update_graphs_and_dropdown" /\ last_call.trigger = "value"
    /\ last_call.selected_borough = "Barnet"
    /\ last_call.selected_major_crime \notin BoroughCategories("Barnet") \cup {None}
    /\ ShownBorough(trend_fig) = "Barnet" /\ major_value = None

----------------------------------------------------------------------------
----------------------------------------------------------------------------
\* C3: with an empty or None borough, for every n_clicks and every category value,
\* update_graphs_and_dropdown returns without raising, with display:none for the graph
\* container, the pie chart and the category dropdown, an empty option list, and no
\* figure computed; the page then shows all three hidden and no options.
C3_NoBoroughHidden ==
    /\ Imported =>
          \A n \in 0..MaxClicks, cat \in MajorCategories \cup {None, ""}, b \in {None, ""} :
             LET r == update_graphs_and_dropdown(n, cat, b)
             IN  /\ ~r.raised
                 /\ r.value.graph_container_style = DisplayNone
                 /\ r.value.pie_style = DisplayNone
                 /\ r.value.major_style = DisplayNone
                 /\ r.value.major_options = <<>>
                 /\ DOMAIN r.value \cap {"trend_fig", "pie_fig", "breakdown_fig"} = {}
    /\ (last_call.fn = "update_graphs_and_dropdown" /\ ~Truthy(last_call.selected_borough)) =>
          /\ ~Rendered(last_call)
          /\ last_call.result = update_graphs_and_dropdown(last_call.n_clicks,
                                    last_call.selected_major_crime, last_call.selected_borough)
          /\ last_call.trigger # "direct" =>
                /\ graph_container_style = DisplayNone /\ pie_style = DisplayNone
                /\ major_style = DisplayNone /\ major_options = <<>>

\* C3 witness: the table is loaded, the trigger was pressed, and the callback ran with
\* no borough and a category.
C3_Witness ==
    /\ pc = "open" /\ crime_df # NoData /\ n_clicks >= 1
    /\ last_call.fn = "update_graphs_and_dropdown"
    /\ last_call.selected_borough = None
    /\ Truthy(last_call.selected_major_crime)
    /\ graph_container_style = DisplayNone /\ major_options = <<>>

----------------------------------------------------------------------------
(* Sums and counts the properties are stated with *)

RECURSIVE SumCounts(_)
SumCounts(I) ==
    IF I = {} THEN 0
    ELSE LET i == CHOOSE j \in I : TRUE
         IN  crime_df.rows[i].CrimeCount + SumCounts(I \ {i})

RECURSIVE SumValues(_)
SumValues(slices) ==
    IF slices = {} THEN 0
    ELSE LET e == CHOOSE x \in slices : TRUE
         IN  e.value + SumValues(slices \ {e})

RECURSIVE SumFileRows(_)
SumFileRows(I) ==
    IF I = {} THEN 0
    ELSE LET i == CHOOSE j \in I : TRUE
         IN  SumSeq(crime_file.rows[i].counts) + SumFileRows(I \ {i})

LongIndex(b) == {i \in DOMAIN crime_df.rows : crime_df.rows[i].BoroughName = b}

NoDuplicates(seq) == \A i, j \in DOMAIN seq : seq[i] = seq[j] => i = j

NonDecreasing(seq) == \A i, j \in DOMAIN seq : i <= j => seq[i] <= seq[j]

Args == last_call

Out == last_call.result.value

----------------------------------------------------------------------------
\* C4: whenever update_graphs_and_dropdown renders charts for a borough, the category
\* options it returns are exactly the distinct MajorCrimeCategory values of the long
\* table's rows of that borough: each once, label = value, none from other boroughs.
C4_OptionsAreBoroughCategories ==
    Rendered(last_call) =>
        /\ OptionValues(Out.major_options) = BoroughCategories(Args.selected_borough)
        /\ Len(Out.major_options) = Cardinality(BoroughCategories(Args.selected_borough))
        /\ \A i \in DOMAIN Out.major_options :
              Out.major_options[i].label = Out.major_options[i].value

\* C4 witness: charts were rendered for a borough that has a category, while another
\* borough has a category this one lacks.
C4_Witness ==
    /\ Rendered(last_call)
    /\ Out.major_options # <<>>
    /\ \E r \in Range(crime_df.rows) :
          /\ r.BoroughName # Args.selected_borough
          /\ r.MajorCrimeCategory \notin OptionValues(Out.major_options)

----------------------------------------------------------------------------
\* C5 (as stated): with a category selected, the breakdown holds one series per
\* distinct subcategory of that category in the selected borough, and the points of
\* each series are in non-decreasing order of month label, whatever the order of
\* the month columns of the wide table.
C5_BreakdownSeriesOrdered ==
    (Rendered(last_call) /\ Truthy(Args.selected_major_crime)) =>
        LET traces == Out.breakdown_fig.data
            subs   == {r.CrimeSubcategory :
                         r \in {q \in BoroughRows(Args.selected_borough) :
                                  q.MajorCrimeCategory = Args.selected_major_crime}}
        IN  /\ {traces[i].name : i \in DOMAIN traces} = subs
            /\ Len(traces) = Cardinality(subs)
            /\ \A i \in DOMAIN traces : NonDecreasing(traces[i].x)

----------------------------------------------------------------------------
\* C6: once the table is melted, the long table has (rows) x (month columns) rows,
\* and for each identifier tuple (BoroughName, MajorCrimeCategory, CrimeSubcategory)
\* the sum of CrimeCount over the long table equals the sum of the month columns of
\* the wide table's rows with that tuple (of that row, when the tuple is unique).
C6_MeltPreservesCounts ==
    (pc \in {"layout", "serving", "open", "tested"} /\ crime_file.state = "ok") =>
        /\ Len(crime_df.rows) = Len(crime_file.rows) * Len(crime_file.columns)
        /\ \A b \in Boroughs, major \in MajorCategories, minor \in Subcategories :
              SumCounts({i \in DOMAIN crime_df.rows :
                            /\ crime_df.rows[i].BoroughName = b
                            /\ crime_df.rows[i].MajorCrimeCategory = major
                            /\ crime_df.rows[i].CrimeSubcategory = minor})
              = SumFileRows({i \in DOMAIN crime_file.rows :
                                /\ crime_file.rows[i].BoroughName = b
                                /\ crime_file.rows[i].MajorText = major
                                /\ crime_file.rows[i].MinorText = minor})

\* C6 witness: a wide table of two rows with different identifier tuples and a
\* non-zero count has been melted.
C6_Witness ==
    /\ pc = "layout" /\ crime_file.state = "ok"
    /\ Len(crime_file.rows) = 2 /\ crime_file.rows[1] # crime_file.rows[2]
    /\ crime_file.rows[1].BoroughName = crime_file.rows[2].BoroughName
    /\ SumSeq(crime_file.rows[1].counts) = 2
    /\ Len(crime_df.rows) = 4

----------------------------------------------------------------------------
\* C7: rendered for a borough of the table with no category, the trend holds one
\* point per month label, its value the sum of CrimeCount over all of the borough's
\* rows of that month; the pie holds one slice per major category of the borough,
\* its value the sum of that category's counts over all months; the breakdown has no
\* series; and the trend total equals the pie total.
C7_TrendAndPieTotals ==
    (/\ Rendered(last_call) /\ ~Truthy(Args.selected_major_crime)
     /\ BoroughRows(Args.selected_borough) # {}) =>
        LET b      == Args.selected_borough
            trend  == Out.trend_fig.data
            slices == Out.pie_fig.data[1].slices
        IN  /\ Len(trend) = 1
            /\ NoDuplicates(trend[1].x)
            /\ Range(trend[1].x) = Range(crime_file.columns)
            /\ DOMAIN trend[1].y = DOMAIN trend[1].x
            /\ \A k \in DOMAIN trend[1].x :
                  trend[1].y[k] = SumCounts({i \in LongIndex(b) :
                                                crime_df.rows[i].Month = trend[1].x[k]})
            /\ Len(Out.pie_fig.data) = 1
            /\ {e.label : e \in slices} = BoroughCategories(b)
            /\ Cardinality(slices) = Cardinality(BoroughCategories(b))
            /\ \A e \in slices :
                  e.value = SumCounts({i \in LongIndex(b) :
                                          crime_df.rows[i].MajorCrimeCategory = e.label})
            /\ Out.breakdown_fig.data = <<>>
            /\ SumSeq(trend[1].y) = SumValues(slices)
            /\ SumValues(slices) = SumCounts(LongIndex(b))

\* C7 witness: rendered with no category for a borough with two major categories,
\* one of them with a month of zero crimes.
C7_Witness ==
    /\ Rendered(last_call) /\ Args.selected_major_crime = None
    /\ Cardinality(BoroughCategories(Args.selected_borough)) = 2
    /\ \E r \in BoroughRows(Args.selected_borough) : r.CrimeCount = 0
    /\ SumSeq(Out.trend_fig.data[1].y) = 2

----------------------------------------------------------------------------
\* C8: whenever the crime table or the boundary data is None, update_heatmap returns,
\* for every n_clicks, without raising, a figure with no data and an annotation that
\* reads "No data available" or "Error: No data available"; that figure is what the
\* page shows.
IsPlaceholder(fig) ==
    /\ fig.kind = "figure"
    /\ fig.data = <<>>
    /\ Len(fig.annotations) >= 1
    /\ fig.annotations[1].text \in {"No data available", "Error: No data available"}

C8_HeatmapPlaceholder ==
    (Imported /\ (crime_df = NoData \/ geojson_data = NoData)) =>
        /\ \A n \in 0..MaxClicks :
              /\ ~update_heatmap(n).raised
              /\ IsPlaceholder(update_heatmap(n).value)
        /\ pc = "open" => IsPlaceholder(heatmap_fig)
        /\ error = None

\* C8 witness: the table is loaded, the boundary data is None, the trigger was pressed.
C8_Witness ==
    /\ pc = "open" /\ n_clicks >= 1
    /\ crime_df # NoData /\ geojson_data = NoData
    /\ IsPlaceholder(heatmap_fig)

----------------------------------------------------------------------------
\* C9 (as stated): neither loader raises: a file that is absent or empty gives None,
\* any other file gives its parsed data, the crime table with MajorText and MinorText
\* renamed to MajorCrimeCategory and CrimeSubcategory.
C9_LoadersNeverRaise ==
    /\ pc # "crashed"
    /\ pc \notin {"load_crime_data", "load_geojson", "crashed"} =>
          /\ crime_file.state \in {"absent", "empty"} => crime_df = NoData
          /\ geojson_file.state \in {"absent", "empty"} => geojson_data = NoData
          /\ geojson_file.state = "ok" => geojson_data.names = geojson_file.names
    /\ pc = "load_geojson" /\ crime_file.state = "ok" =>
          /\ Len(crime_df.rows) = Len(crime_file.rows)
          /\ \A i \in DOMAIN crime_df.rows :
                /\ crime_df.rows[i].MajorCrimeCategory = crime_file.rows[i].MajorText
                /\ crime_df.rows[i].CrimeSubcategory = crime_file.rows[i].MinorText

----------------------------------------------------------------------------
\* C10 (as stated): no error condition is fatal: the start-up never ends in an escaped
\* exception, melt_crime_data(None) is None, and for every table and boundary state,
\* n_clicks, borough and category both callbacks return all their outputs without
\* raising.
C10_NoFatalError ==
    /\ pc # "crashed" /\ error = None
    /\ melt_crime_data(NoData) = NoData
    /\ Imported =>
          /\ \A n \in 0..MaxClicks : ~update_heatmap(n).raised
          /\ \A n \in 0..MaxClicks, cat \in MajorCategories \cup {None, "", "Robbery"},
                b \in Boroughs \cup {None, "", "Harrow"} :
                LET r == update_graphs_and_dropdown(n, cat, b)
                IN  /\ ~r.raised
                    /\ {"graph_container_style", "pie_style", "major_options",
                        "major_style"} \subseteq DOMAIN r.value

\* The part of C10 that is about the callbacks and the reshaper alone.
C10_CallbacksNeverRaise ==
    /\ error \in {None, "JSONDecodeError"}
    /\ error # None => pc = "crashed"
    /\ melt_crime_data(NoData) = NoData
    /\ Imported =>
          /\ \A n \in 0..MaxClicks : ~update_heatmap(n).raised
          /\ \A n \in 0..MaxClicks, cat \in MajorCategories \cup {None, "", "Robbery"},
                b \in Boroughs \cup {None, "", "Harrow"} :
                ~update_graphs_and_dropdown(n, cat, b).raised

----------------------------------------------------------------------------
\* C11: an invocation of update_graphs_and_dropdown displays charts exactly when
\* n_clicks # 0, the table is present and the borough is non-empty; every such
\* invocation, the one caused by picking a category included, returns None for the
\* category dropdown's value, and the page then holds no category value; an
\* invocation that hides the charts returns no value for it (dash.no_update).  So
\* with a category's breakdown displayed, a press of the trigger invokes the callback
\* with no category, what it renders has no breakdown series, and the view with a
\* breakdown does not survive the press.
BreakdownDisplayed == ChartsDisplayed /\ breakdown_fig.data # <<>>

C11_ValueClearedOnDisplay ==
    [][ /\ (last_call' # last_call /\ last_call'.fn = "update_graphs_and_dropdown") =>
              /\ ~last_call'.result.raised
              /\ Rendered(last_call') <=>
                    (/\ last_call'.n_clicks # 0 /\ crime_df' # NoData
                     /\ Truthy(last_call'.selected_borough))
              /\ Rendered(last_call') =>
                    /\ "major_value" \in DOMAIN last_call'.result.value
                    /\ last_call'.result.value.major_value = None
                    /\ major_value' = None
                    /\ ChartsDisplayed'
              /\ ~Rendered(last_call') =>
                    /\ "major_value" \notin DOMAIN last_call'.result.value
                    /\ major_value' \in {last_call'.selected_major_crime, None}
                    /\ ~ChartsDisplayed'
        /\ ChartsDisplayed' => major_value' = None
        /\ (BreakdownDisplayed /\ n_clicks' = n_clicks + 1) =>
              /\ last_call'.trigger = "n_clicks"
              /\ last_call'.selected_borough = borough_value
              /\ last_call'.selected_major_crime = None
              /\ Rendered(last_call') => breakdown_fig'.data = <<>>
              /\ ~BreakdownDisplayed'
      ]_vars

\* C11 witness: picking a category displayed its breakdown and left the dropdown's
\* value None, and the trigger can be pressed again.
C11_Witness ==
    /\ pc = "open" /\ n_clicks < MaxClicks
    /\ last_call.fn = "update_graphs_and_dropdown" /\ last_call.trigger = "value"
    /\ Rendered(last_call) /\ Truthy(last_call.selected_major_crime)
    /\ last_call.selected_borough = borough_value
    /\ BreakdownDisplayed
    /\ major_value = None

====
